---- MODULE Spec2Model ----
(***************************************************************************)
(* A model of creepdir.py: scan_folder_for_filetypes picks a folder, walks *)
(* it with os.walk, groups the relative paths of the files by lowercased   *)
(* extension in the dict files_by_ext and writes one text report.          *)
(*                                                                         *)
(* Strings are sequences of one-character strings, so that splitext,       *)
(* lower, join, relpath, basename and the string comparison used by        *)
(* sorted() are computed character by character.  Paths follow posixpath.  *)
(***************************************************************************)
EXTENDS Integers, Sequences, FiniteSets, TLC

VARIABLES pc, folder_selected, tree, outdir_exists, files, todo, dirpath,
          filenames, visited, files_by_ext, output_path, f, items, i, j,
          console, steps, error, before, prev

vars == <<pc, folder_selected, tree, outdir_exists, files, todo, dirpath,
          filenames, visited, files_by_ext, output_path, f, items, i, j,
          console, steps, error, before, prev>>

----------------------------------------------------------------------------
(* Bounds *)

\* largest number of files in the selected tree
MaxFiles == 2

\* longest filename given to the extension classifier on its own
MaxNameLen == 3

----------------------------------------------------------------------------
(* Characters and strings *)

Sep == "/"
ExtSep == "."
NL == "\n"

\* the characters filenames are made of
Chars == {".", "A", "a", "b"}

\* code point of a character: Python compares str by code point
Ord(c) ==
  CASE c = "." -> 46
    [] c = "A" -> 65
    [] c = "a" -> 97
    [] c = "b" -> 98

\* str.lower() on one character
LowerChar(c) == IF c = "A" THEN "a" ELSE c

\* str.lower()
Lower(s) == [k \in 1..Len(s) |-> LowerChar(s[k])]

\* s[a:b] with 0-based half-open Python indices, 0 <= a
Slice(s, a, b) == SubSeq(s, a + 1, b)

\* str.rfind(c): 0-based index of the last c in s, -1 if there is none
RFind(s, c) ==
  IF \E k \in 1..Len(s) : s[k] = c
  THEN (CHOOSE k \in 1..Len(s) : s[k] = c /\ \A m \in (k+1)..Len(s) : s[m] # c) - 1
  ELSE -1

\* str < str
RECURSIVE StrLess(_, _)
StrLess(s, t) ==
  IF t = <<>> THEN FALSE
  ELSE IF s = <<>> THEN TRUE
  ELSE IF s[1] # t[1] THEN Ord(s[1]) < Ord(t[1])
  ELSE StrLess(Tail(s), Tail(t))

----------------------------------------------------------------------------
(* posixpath *)

\* the loop of genericpath._splitext that skips leading dots: TRUE when a
\* character other than the dot lies in p[filenameIndex:dotIndex]
RECURSIVE HasNonDotBefore(_, _, _)
HasNonDotBefore(p, filenameIndex, dotIndex) ==
  IF filenameIndex < dotIndex
  THEN IF p[filenameIndex + 1] # ExtSep THEN TRUE
       ELSE HasNonDotBefore(p, filenameIndex + 1, dotIndex)
  ELSE FALSE

\* a split at the last dot wherever it is
splitext_AnyDot(p) ==
  LET sepIndex == RFind(p, Sep)
      dotIndex == RFind(p, ExtSep)
  IN IF dotIndex > sepIndex
     THEN <<Slice(p, 0, dotIndex), Slice(p, dotIndex, Len(p))>>
     ELSE <<p, <<>>>>

\* os.path.splitext(p): <<root, ext>>
splitext(p) ==
  LET sepIndex == RFind(p, Sep)
      dotIndex == RFind(p, ExtSep)
  IN IF dotIndex > sepIndex /\ HasNonDotBefore(p, sepIndex + 1, dotIndex)
     THEN <<Slice(p, 0, dotIndex), Slice(p, dotIndex, Len(p))>>
     ELSE <<p, <<>>>>

\* os.path.join(a, b)
join(a, b) ==
  IF b # <<>> /\ b[1] = Sep THEN b
  ELSE IF a = <<>> \/ a[Len(a)] = Sep THEN a \o b
  ELSE a \o <<Sep>> \o b

\* os.path.basename(p)
basename(p) == Slice(p, RFind(p, Sep) + 1, Len(p))

\* p.split(sep) without the empty components
RECURSIVE Components(_)
Components(p) ==
  IF p = <<>> THEN <<>>
  ELSE LET k == IF \E m \in 1..Len(p) : p[m] = Sep
                THEN CHOOSE m \in 1..Len(p) : p[m] = Sep /\ \A n \in 1..(m-1) : p[n] # Sep
                ELSE Len(p) + 1
           head == SubSeq(p, 1, k - 1)
           rest == Components(SubSeq(p, k + 1, Len(p)))
       IN IF head = <<>> THEN rest ELSE <<head>> \o rest

\* length of the common prefix of two component lists
RECURSIVE CommonLen(_, _)
CommonLen(a, b) ==
  IF a = <<>> \/ b = <<>> \/ a[1] # b[1] THEN 0
  ELSE 1 + CommonLen(Tail(a), Tail(b))

\* sep.join(parts)
RECURSIVE JoinAll(_)
JoinAll(parts) ==
  IF parts = <<>> THEN <<>>
  ELSE IF Len(parts) = 1 THEN parts[1]
  ELSE parts[1] \o <<Sep>> \o JoinAll(Tail(parts))

\* os.path.relpath(path, start) for absolute path and start
relpath(path, start) ==
  LET start_list == Components(start)
      path_list == Components(path)
      c == CommonLen(start_list, path_list)
      rel_list == [k \in 1..(Len(start_list) - c) |-> <<".", ".">>]
                  \o SubSeq(path_list, c + 1, Len(path_list))
  IN IF rel_list = <<>> THEN <<".">> ELSE JoinAll(rel_list)

----------------------------------------------------------------------------
(* dict and sorted() *)

\* A dict is the sequence of its <<key, value>> items in insertion order.
Keys(d) == {d[k][1] : k \in 1..Len(d)}

\* d[key], for a key of d
Get(d, key) == d[CHOOSE k \in 1..Len(d) : d[k][1] = key][2]

\* d[key] = [value]: the group is replaced, not extended
setdefault_append_Replace(d, key, value) ==
  IF key \in Keys(d)
  THEN [k \in 1..Len(d) |-> IF d[k][1] = key THEN <<key, <<value>>>> ELSE d[k]]
  ELSE Append(d, <<key, <<value>>>>)

\* d.setdefault(key, []).append(value)
setdefault_append(d, key, value) ==
  IF key \in Keys(d)
  THEN [k \in 1..Len(d) |->
          IF d[k][1] = key THEN <<key, Append(d[k][2], value)>> ELSE d[k]]
  ELSE Append(d, <<key, <<value>>>>)

\* list of str < list of str
RECURSIVE ListLess(_, _)
ListLess(a, b) ==
  IF b = <<>> THEN FALSE
  ELSE IF a = <<>> THEN TRUE
  ELSE IF a[1] # b[1] THEN StrLess(a[1], b[1])
  ELSE ListLess(Tail(a), Tail(b))

\* the comparison of sorted(..., reverse=True)
ItemLess_Reversed(a, b) ==
  IF a[1] # b[1] THEN StrLess(b[1], a[1]) ELSE ListLess(b[2], a[2])

\* (ext, paths) < (ext, paths): tuples compare element by element
ItemLess(a, b) ==
  IF a[1] # b[1] THEN StrLess(a[1], b[1]) ELSE ListLess(a[2], b[2])

\* insert x into the sorted list s behind the items that are not greater
RECURSIVE InsertSorted(_, _)
InsertSorted(s, x) ==
  IF s = <<>> THEN <<x>>
  ELSE IF ItemLess(x, s[1]) THEN <<x>> \o s
  ELSE <<s[1]>> \o InsertSorted(Tail(s), x)

\* d.items() as it is, in insertion order
sorted_InsertionOrder(d) == d

\* sorted(d.items())
RECURSIVE sorted(_)
sorted(d) ==
  IF d = <<>> THEN <<>>
  ELSE InsertSorted(sorted(SubSeq(d, 1, Len(d) - 1)), d[Len(d)])

----------------------------------------------------------------------------
(* The environment: folders, trees, the disk *)

\* the folders the picker can return
Folders == { <<"/", "d">>, <<"/", "e", "/", "d">>, <<"/", "e">> }

\* os.path.dirname(os.path.abspath(__file__))
script_dir == <<"/", "t">>

\* the filenames found in the trees
NamePool == { <<"a">>, <<"a", ".", "A">>, <<"b", ".", "a">>, <<"a", ".", "b">>,
              <<".", "a">>, <<"a", ".">> }

\* the selected folder itself and its one subdirectory, relative to it
RootDir == <<>>
SubDir == <<"s">>
Dirs == {RootDir, SubDir}

\* the subdirectories os.walk finds in a directory
Subdirs(d) == IF d = RootDir THEN <<SubDir>> ELSE <<>>

\* a tree: its files as <<directory, filename>> and the directories that
\* cannot be listed
Trees ==
  { [files |-> fs, unreadable |-> u] :
      fs \in {x \in SUBSET (Dirs \X NamePool) : Cardinality(x) <= MaxFiles},
      u \in SUBSET Dirs }

\* the filenames of directory d of tree t
NamesIn(t, d) == {x[2] : x \in {y \in t.files : y[1] = d}}

\* the orders in which a listing can return the set S
Listings(S) ==
  {s \in [1..Cardinality(S) -> S] : \A a, b \in 1..Cardinality(S) : a # b => s[a] # s[b]}

\* the report path without basename(): join() drops output_dir in front of
\* an absolute folder
OutputPath_NoBasename(folder) ==
  join(join(script_dir, <<"o", "u", "t", "p", "u", "t">>), folder \o <<".", "t", "x", "t">>)

\* output_dir (line 23)
OutputDir == join(script_dir, <<"o", "u", "t", "p", "u", "t">>)

\* the report path of a selected folder (lines 27-28)
OutputPath(folder) == join(OutputDir, basename(folder) \o <<".", "t", "x", "t">>)

\* what an earlier report can hold
OldContent == <<"-", "-", "-", " ", ".", "b", " ", "-", "-", "-", NL, "o", ".", "b", NL, NL>>

\* the states of the disk before a run: no output directory, an empty one,
\* one with an earlier report
Disks ==
  { [exists |-> FALSE, files |-> <<>>],
    [exists |-> TRUE, files |-> <<>>],
    [exists |-> TRUE, files |-> <<<<OutputPath(<<"/", "d">>), OldContent>>>>] }

\* the files on disk are a dict from path to content
Exists(path) == path \in Keys(files)
Content(path) == Get(files, path)

\* open(path, "w"): create or truncate
Truncate(fs, path) ==
  IF path \in Keys(fs)
  THEN [k \in 1..Len(fs) |-> IF fs[k][1] = path THEN <<path, <<>>>> ELSE fs[k]]
  ELSE Append(fs, <<path, <<>>>>)

\* f.write(s) on the file at path
WriteTo(fs, path, s) ==
  [k \in 1..Len(fs) |-> IF fs[k][1] = path THEN <<path, fs[k][2] \o s>> ELSE fs[k]]

\* f"--- {ext} ---\n"
HeaderLine(e) == <<"-", "-", "-", " ">> \o e \o <<" ", "-", "-", "-", NL>>

\* f"{path}\n"
PathLine(p) == p \o <<NL>>

\* the console lines
NoFolderLine == <<"No folder selected.">>
SavedLine(path) == <<"Saved to: ">> \o path

----------------------------------------------------------------------------
(* The run *)

NoFile == [path |-> <<>>, state |-> "none"]

\* the state before the picker opens, for a tree and a disk
Start(t, d) ==
  /\ pc = "pick"
  /\ folder_selected = <<>>
  /\ tree = t
  /\ outdir_exists = d.exists
  /\ files = d.files
  /\ todo = <<>>
  /\ dirpath = <<>>
  /\ filenames = <<>>
  /\ visited = <<>>
  /\ files_by_ext = <<>>
  /\ output_path = <<>>
  /\ f = NoFile
  /\ items = <<>>
  /\ i = 0
  /\ j = 0
  /\ console = <<>>
  /\ steps = <<>>
  /\ error = "none"
  /\ before = d
  /\ prev = <<>>

Init == \E t \in Trees, d \in Disks : Start(t, d)

\* lines 6-8 and 14: the picker returns a folder
Pick ==
  /\ pc = "pick"
  /\ \E d \in Folders : folder_selected' = d
  /\ files_by_ext' = <<>>
  /\ todo' = <<RootDir>>
  /\ steps' = Append(steps, "select")
  /\ pc' = "walk"
  /\ UNCHANGED <<tree, outdir_exists, files, dirpath, filenames, visited,
                 output_path, f, items, i, j, console, error, before, prev>>

\* the output folder is made before the answer of the picker is looked at
Cancel_MakedirsFirst ==
  /\ pc = "pick"
  /\ folder_selected' = <<>>
  /\ outdir_exists' = TRUE
  /\ console' = Append(console, NoFolderLine)
  /\ pc' = "cancelled"
  /\ UNCHANGED <<tree, files, todo, dirpath, filenames, visited, files_by_ext,
                 output_path, f, items, i, j, steps, error, before, prev>>

\* lines 6-11: the picker returns the empty string
Cancel ==
  /\ pc = "pick"
  /\ folder_selected' = <<>>
  /\ console' = Append(console, NoFolderLine)
  /\ pc' = "cancelled"
  /\ UNCHANGED <<tree, outdir_exists, files, todo, dirpath, filenames, visited,
                 files_by_ext, output_path, f, items, i, j, steps, error, before, prev>>

\* line 15: os.walk lists the next directory and yields it
WalkDir ==
  /\ pc = "walk"
  /\ filenames = <<>>
  /\ todo # <<>>
  /\ Head(todo) \notin tree.unreadable
  /\ dirpath' = IF Head(todo) = RootDir THEN folder_selected
                ELSE join(folder_selected, Head(todo))
  /\ filenames' \in Listings(NamesIn(tree, Head(todo)))
  /\ todo' = Subdirs(Head(todo)) \o Tail(todo)
  /\ UNCHANGED <<pc, folder_selected, tree, outdir_exists, files, visited,
                 files_by_ext, output_path, f, items, i, j, console, steps,
                 error, before, prev>>

\* os.walk with an onerror that raises
WalkSkip_Raises ==
  /\ pc = "walk"
  /\ filenames = <<>>
  /\ todo # <<>>
  /\ Head(todo) \in tree.unreadable
  /\ error' = "walk"
  /\ pc' = "failed"
  /\ UNCHANGED <<folder_selected, tree, outdir_exists, files, todo, dirpath,
                 filenames, visited, files_by_ext, output_path, f, items, i, j,
                 console, steps, before, prev>>

\* line 15: os.walk cannot list the next directory; its onerror is None, so
\* the error is dropped and the directory yields nothing
WalkSkip ==
  /\ pc = "walk"
  /\ filenames = <<>>
  /\ todo # <<>>
  /\ Head(todo) \in tree.unreadable
  /\ todo' = Tail(todo)
  /\ UNCHANGED <<pc, folder_selected, tree, outdir_exists, files, dirpath,
                 filenames, visited, files_by_ext, output_path, f, items, i, j,
                 console, steps, error, before, prev>>

\* lines 16-19: one pass of the loop over the filenames of a directory
Insert ==
  /\ pc = "walk"
  /\ filenames # <<>>
  /\ LET filename == Head(filenames)
         ext == Lower(splitext(filename)[2])
         rel_path == relpath(join(dirpath, filename), folder_selected)
     IN /\ files_by_ext' = setdefault_append(files_by_ext, ext, rel_path)
        /\ visited' = Append(visited, <<dirpath, filename>>)
  /\ filenames' = Tail(filenames)
  /\ UNCHANGED <<pc, folder_selected, tree, outdir_exists, files, todo, dirpath,
                 output_path, f, items, i, j, console, steps, error, before, prev>>

\* line 15: os.walk is exhausted
WalkEnd ==
  /\ pc = "walk"
  /\ filenames = <<>>
  /\ todo = <<>>
  /\ steps' = Append(steps, "traverse")
  /\ pc' = "makedirs"
  /\ UNCHANGED <<folder_selected, tree, outdir_exists, files, todo, dirpath,
                 filenames, visited, files_by_ext, output_path, f, items, i, j,
                 console, error, before, prev>>

\* lines 22-28: os.makedirs(output_dir, exist_ok=True), then the report path
Makedirs ==
  /\ pc = "makedirs"
  /\ outdir_exists' = TRUE
  /\ output_path' = OutputPath(folder_selected)
  /\ steps' = Append(steps, "makedirs")
  /\ pc' = "open"
  /\ UNCHANGED <<folder_selected, tree, files, todo, dirpath, filenames, visited,
                 files_by_ext, f, items, i, j, console, error, before, prev>>

\* line 24: os.makedirs raises; nothing catches it
MakedirsFail ==
  /\ pc = "makedirs"
  /\ ~outdir_exists
  /\ error' = "makedirs"
  /\ pc' = "failed"
  /\ UNCHANGED <<folder_selected, tree, outdir_exists, files, todo, dirpath,
                 filenames, visited, files_by_ext, output_path, f, items, i, j,
                 console, steps, before, prev>>

\* open(output_path, "a"): an existing report is kept
Open_Append ==
  /\ pc = "open"
  /\ files' = IF output_path \in Keys(files) THEN files
              ELSE Append(files, <<output_path, <<>>>>)
  /\ f' = [path |-> output_path, state |-> "open"]
  /\ items' = sorted(files_by_ext)
  /\ i' = 1
  /\ j' = 0
  /\ steps' = Append(steps, "open")
  /\ pc' = "write"
  /\ UNCHANGED <<folder_selected, tree, outdir_exists, todo, dirpath, filenames,
                 visited, files_by_ext, output_path, console, error, before, prev>>

\* lines 31-32: open(output_path, "w") and the head of the loop over
\* sorted(files_by_ext.items())
Open ==
  /\ pc = "open"
  /\ files' = Truncate(files, output_path)
  /\ f' = [path |-> output_path, state |-> "open"]
  /\ items' = sorted(files_by_ext)
  /\ i' = 1
  /\ j' = 0
  /\ steps' = Append(steps, "open")
  /\ pc' = "write"
  /\ UNCHANGED <<folder_selected, tree, outdir_exists, todo, dirpath, filenames,
                 visited, files_by_ext, output_path, console, error, before, prev>>

\* line 31: open raises; no handle was opened
OpenFail ==
  /\ pc = "open"
  /\ error' = "open"
  /\ pc' = "failed"
  /\ UNCHANGED <<folder_selected, tree, outdir_exists, files, todo, dirpath,
                 filenames, visited, files_by_ext, output_path, f, items, i, j,
                 console, steps, before, prev>>

\* line 33: the header of items[i]
WriteHeader ==
  /\ pc = "write"
  /\ i <= Len(items)
  /\ j = 0
  /\ files' = WriteTo(files, f.path, HeaderLine(items[i][1]))
  /\ j' = 1
  /\ UNCHANGED <<pc, folder_selected, tree, outdir_exists, todo, dirpath,
                 filenames, visited, files_by_ext, output_path, f, items, i,
                 console, steps, error, before, prev>>

\* lines 34-35: path j of items[i]
WritePath ==
  /\ pc = "write"
  /\ i <= Len(items)
  /\ j >= 1
  /\ j <= Len(items[i][2])
  /\ files' = WriteTo(files, f.path, PathLine(items[i][2][j]))
  /\ j' = j + 1
  /\ UNCHANGED <<pc, folder_selected, tree, outdir_exists, todo, dirpath,
                 filenames, visited, files_by_ext, output_path, f, items, i,
                 console, steps, error, before, prev>>

\* the block ends without its empty line
WriteBlank_Missing ==
  /\ pc = "write"
  /\ i <= Len(items)
  /\ j > Len(items[i][2])
  /\ i' = i + 1
  /\ j' = 0
  /\ UNCHANGED <<pc, folder_selected, tree, outdir_exists, files, todo, dirpath,
                 filenames, visited, files_by_ext, output_path, f, items,
                 console, steps, error, before, prev>>

\* line 36: the empty line that ends the block of items[i]
WriteBlank ==
  /\ pc = "write"
  /\ i <= Len(items)
  /\ j > Len(items[i][2])
  /\ files' = WriteTo(files, f.path, <<NL>>)
  /\ i' = i + 1
  /\ j' = 0
  /\ UNCHANGED <<pc, folder_selected, tree, outdir_exists, todo, dirpath,
                 filenames, visited, files_by_ext, output_path, f, items,
                 console, steps, error, before, prev>>

\* a write raises and no with statement closes the handle
WriteFail_Leak ==
  /\ pc = "write"
  /\ i <= Len(items)
  /\ error' = "write"
  /\ pc' = "failed"
  /\ UNCHANGED <<folder_selected, tree, outdir_exists, files, todo, dirpath,
                 filenames, visited, files_by_ext, output_path, f, items, i, j,
                 console, steps, before, prev>>

\* lines 33-36: a write raises; the with statement closes the handle and the
\* error leaves the function
WriteFail ==
  /\ pc = "write"
  /\ i <= Len(items)
  /\ f' = [f EXCEPT !.state = "closed"]
  /\ error' = "write"
  /\ pc' = "failed"
  /\ UNCHANGED <<folder_selected, tree, outdir_exists, files, todo, dirpath,
                 filenames, visited, files_by_ext, output_path, items, i, j,
                 console, steps, before, prev>>

\* line 31: the loop is over and the with statement closes the handle
Close ==
  /\ pc = "write"
  /\ i > Len(items)
  /\ f' = [f EXCEPT !.state = "closed"]
  /\ steps' = Append(Append(steps, "write"), "close")
  /\ pc' = "print"
  /\ UNCHANGED <<folder_selected, tree, outdir_exists, files, todo, dirpath,
                 filenames, visited, files_by_ext, output_path, items, i, j,
                 console, error, before, prev>>

\* line 31: the flush of close() raises; the descriptor is closed all the same
CloseFail ==
  /\ pc = "write"
  /\ i > Len(items)
  /\ f' = [f EXCEPT !.state = "closed"]
  /\ error' = "close"
  /\ pc' = "failed"
  /\ UNCHANGED <<folder_selected, tree, outdir_exists, files, todo, dirpath,
                 filenames, visited, files_by_ext, output_path, items, i, j,
                 console, steps, before, prev>>

\* line 38
PrintSaved ==
  /\ pc = "print"
  /\ console' = Append(console, SavedLine(output_path))
  /\ steps' = Append(steps, "print")
  /\ pc' = "done"
  /\ UNCHANGED <<folder_selected, tree, outdir_exists, files, todo, dirpath,
                 filenames, visited, files_by_ext, output_path, f, items, i, j,
                 error, before, prev>>

Next ==
  \/ Pick
  \/ Cancel
  \/ WalkDir
  \/ WalkSkip
  \/ Insert
  \/ WalkEnd
  \/ Makedirs
  \/ MakedirsFail
  \/ Open
  \/ OpenFail
  \/ WriteHeader
  \/ WritePath
  \/ WriteBlank
  \/ WriteFail
  \/ Close
  \/ CloseFail
  \/ PrintSaved

Spec == Init /\ [][Next]_vars

----------------------------------------------------------------------------
(* The classifier on every filename of up to MaxNameLen characters *)

\* the strings over Chars of length n
RECURSIVE StringsOfLen(_)
StringsOfLen(n) ==
  IF n = 0 THEN {<<>>}
  ELSE {<<c>> \o s : c \in Chars, s \in StringsOfLen(n - 1)}

\* the names a directory entry can have: '.' and '..' are not listed
Names == UNION {StringsOfLen(n) : n \in 1..MaxNameLen} \ { <<".">>, <<".", ".">> }

\* the trees of one file of any name
ExtTrees ==
  { [files |-> {<<d, n>>}, unreadable |-> u] :
      d \in Dirs, n \in Names, u \in SUBSET Dirs }

InitExt == \E t \in ExtTrees, d \in Disks : Start(t, d)

SpecExt == InitExt /\ [][Next]_vars

----------------------------------------------------------------------------
(* Two runs in a row on a tree that does not change and a disk that does   *)
(* not fail                                                                *)

\* lines 40-41: the tool is started again after a run that ended
Rerun ==
  /\ pc \in {"done", "cancelled"}
  /\ prev = <<>>
  /\ prev' = << [outcome |-> pc,
                 folder |-> folder_selected,
                 visited |-> visited,
                 table |-> files_by_ext,
                 output_path |-> output_path,
                 report |-> IF pc = "done" THEN Content(output_path) ELSE <<>>] >>
  /\ before' = [exists |-> outdir_exists, files |-> files]
  /\ pc' = "pick"
  /\ folder_selected' = <<>>
  /\ todo' = <<>>
  /\ dirpath' = <<>>
  /\ filenames' = <<>>
  /\ visited' = <<>>
  /\ files_by_ext' = <<>>
  /\ output_path' = <<>>
  /\ f' = NoFile
  /\ items' = <<>>
  /\ i' = 0
  /\ j' = 0
  /\ console' = <<>>
  /\ steps' = <<>>
  /\ UNCHANGED <<tree, outdir_exists, files, error>>

NextTwo ==
  \/ Pick
  \/ Cancel
  \/ WalkDir
  \/ WalkSkip
  \/ Insert
  \/ WalkEnd
  \/ Makedirs
  \/ Open
  \/ WriteHeader
  \/ WritePath
  \/ WriteBlank
  \/ Close
  \/ PrintSaved
  \/ Rerun

SpecTwo == Init /\ [][NextTwo]_vars

----------------------------------------------------------------------------
(* Vocabulary of the properties *)

Range(s) == {s[k] : k \in 1..Len(s)}

Terminal == {"done", "failed", "cancelled"}

\* the relative path of a visited <<dirpath, filename>>: the part of dirpath
\* below the selected folder, then the filename as it is on disk
Rel(v) ==
  IF v[1] = folder_selected THEN v[2]
  ELSE SubSeq(v[1], Len(folder_selected) + 2, Len(v[1])) \o <<"/">> \o v[2]

VisitedRels == [k \in 1..Len(visited) |-> Rel(visited[k])]

\* the places <<group, position>> of the table that hold the path r
Places(r) ==
  {x \in (1..Len(files_by_ext)) \X (1..MaxFiles + 1) :
     x[2] <= Len(files_by_ext[x[1]][2]) /\ files_by_ext[x[1]][2][x[2]] = r}

RECURSIVE SumLen(_)
SumLen(d) == IF d = <<>> THEN 0 ELSE Len(d[1][2]) + SumLen(Tail(d))

\* number of line ends in a text
RECURSIVE CountNL(_)
CountNL(t) ==
  IF t = <<>> THEN 0
  ELSE (IF t[1] = NL THEN 1 ELSE 0) + CountNL(Tail(t))

\* the lines of a text, each without its line end
RECURSIVE Lines(_)
Lines(t) ==
  IF t = <<>> THEN <<>>
  ELSE LET k == CHOOSE m \in 1..Len(t) : t[m] = NL /\ \A n \in 1..(m-1) : t[n] # NL
       IN <<SubSeq(t, 1, k - 1)>> \o Lines(SubSeq(t, k + 1, Len(t)))

IsHeader(l) ==
  /\ Len(l) >= 8
  /\ SubSeq(l, 1, 4) = <<"-", "-", "-", " ">>
  /\ SubSeq(l, Len(l) - 3, Len(l)) = <<" ", "-", "-", "-">>

\* the extension keys of the header lines of a text, in the order of the text
ReportHeaders(t) ==
  LET hs == SelectSeq(Lines(t), IsHeader)
  IN [k \in 1..Len(hs) |-> SubSeq(hs[k], 5, Len(hs[k]) - 4)]

----------------------------------------------------------------------------
(* C1 *)

\* C1: after every insertion step of the grouping pass and when it is over,
\* each visited file is at exactly one place of the table (one group, once),
\* no extension key has two groups, and the lengths of the groups add up to
\* the number of files visited so far.
C1_EachFileOnce ==
  /\ SumLen(files_by_ext) = Len(visited)
  /\ \A k \in 1..Len(visited) : Cardinality(Places(Rel(visited[k]))) = 1
  /\ \A a, b \in 1..Len(files_by_ext) :
       a # b => files_by_ext[a][1] # files_by_ext[b][1]

\* the traversal is over and two files were put in one group
C1_Witness ==
  /\ pc = "makedirs"
  /\ Len(visited) >= 2
  /\ \E k \in 1..Len(files_by_ext) : Len(files_by_ext[k][2]) >= 2

----------------------------------------------------------------------------
(* C2 *)

HasDot(name) == \E k \in 1..Len(name) : name[k] = "."

LastDot(name) ==
  CHOOSE k \in 1..Len(name) : name[k] = "." /\ \A m \in (k+1)..Len(name) : name[m] # "."

\* the key as the claim states it
StatedKey(name) ==
  IF HasDot(name) THEN Lower(SubSeq(name, LastDot(name), Len(name))) ELSE <<>>

\* the key when the dots a name starts with do not count
LeadingDotsKey(name) ==
  IF HasDot(name) /\ \E m \in 1..(LastDot(name) - 1) : name[m] # "."
  THEN Lower(SubSeq(name, LastDot(name), Len(name)))
  ELSE <<>>

\* the visited file v is stored, in its own casing, in the group of key(name)
GroupedUnder(v, key) ==
  \E k \in 1..Len(files_by_ext) :
     /\ files_by_ext[k][1] = key
     /\ Rel(v) \in Range(files_by_ext[k][2])

\* C2 as stated: every file is grouped under the lowercased substring of its
\* name from the last '.' onward, the empty string exactly when the name has
\* no '.'.
C2_Stated == \A k \in 1..Len(visited) : GroupedUnder(visited[k], StatedKey(visited[k][2]))

\* C2 as amended: every file is grouped under the lowercased substring of its
\* name from the last '.' onward when a character other than '.' comes before
\* that '.', and under the empty string otherwise (no '.', or only '.' before
\* the last '.', as in '.gitignore'); the stored path keeps the casing.
C2_LeadingDots ==
  \A k \in 1..Len(visited) : GroupedUnder(visited[k], LeadingDotsKey(visited[k][2]))

\* a name whose only '.' is its first character was grouped under ''
C2_Witness ==
  /\ pc = "done"
  /\ Len(visited) = 1
  /\ visited[1][2] = <<".", "a">>
  /\ files_by_ext[1][1] = <<>>

----------------------------------------------------------------------------
(* C3 *)

\* C3: the headers of the report are strictly ascending under code-point
\* comparison of their keys at every moment of the writing, and in the
\* finished report every key of the table has exactly one header and the
\* empty key, when there is one, comes first.
C3_HeadersAscending ==
  f.state # "none" =>
    LET h == ReportHeaders(Content(f.path))
    IN /\ \A k \in 1..(Len(h) - 1) : StrLess(h[k], h[k + 1])
       /\ pc \in {"print", "done"} =>
            /\ Range(h) = Keys(files_by_ext)
            /\ Len(h) = Cardinality(Keys(files_by_ext))
            /\ <<>> \in Keys(files_by_ext) => h[1] = <<>>

\* a finished report whose keys were not inserted in ascending order and
\* that has the empty key
C3_Witness ==
  /\ pc = "done"
  /\ Len(files_by_ext) >= 2
  /\ files_by_ext[Len(files_by_ext)][1] = <<>>
  /\ ReportHeaders(Content(output_path))[1] = <<>>

----------------------------------------------------------------------------
(* C4 *)

\* C4: a cancelled run has printed the line 'No folder selected.' and
\* nothing else, has started no traversal, has opened no file, has left the
\* output directory and the files on disk as they were before the run, and
\* takes no further step.
C4_CancelIsNoOp ==
  (pc = "cancelled" \/ NoFolderLine \in Range(console)) =>
    /\ pc = "cancelled"
    /\ console = <<NoFolderLine>>
    /\ visited = <<>>
    /\ todo = <<>>
    /\ steps = <<>>
    /\ files_by_ext = <<>>
    /\ f = NoFile
    /\ error = "none"
    /\ outdir_exists = before.exists
    /\ files = before.files
    /\ ~ENABLED Next

\* a cancelled run on a disk without output directory
C4_Witness == pc = "cancelled" /\ ~before.exists /\ ~outdir_exists

----------------------------------------------------------------------------
(* C5 *)

\* the directory of a file of the tree cannot be listed, or the folder above
\* it cannot
Hidden(x) == x[1] \in tree.unreadable \/ RootDir \in tree.unreadable

\* C5 as stated: a run in which a directory under the selected folder could
\* not be read never reaches the success state.
C5_Stated == tree.unreadable # {} => pc # "done"

\* C5 as amended: a failure of makedirs, of open, of a write or of the close
\* of the report ends the run before 'Saved to:' is printed and these are the
\* only failures; a directory that cannot be listed raises nothing, its files
\* are left out of the traversal and the run goes on.
C5_OnlyWritingFails ==
  /\ pc = "failed" <=> error # "none"
  /\ pc = "failed" => error \in {"makedirs", "open", "write", "close"} /\ console = <<>>
  /\ \A x \in tree.files :
       Hidden(x) => \A k \in 1..Len(visited) : visited[k][2] # x[2] \/ Rel(visited[k]) # join(x[1], x[2])
  /\ pc \in {"makedirs", "open", "write", "print", "done"} =>
       \A x \in tree.files : ~Hidden(x) => join(x[1], x[2]) \in Range(VisitedRels)

\* a run that succeeded although the subdirectory, which holds a file, could
\* not be listed
C5_Witness ==
  /\ pc = "done"
  /\ SubDir \in tree.unreadable
  /\ NamesIn(tree, SubDir) # {}
  /\ console = <<SavedLine(output_path)>>

----------------------------------------------------------------------------
(* C6 *)

\* the least of a set of keys under code-point comparison
MinKey(ks) == CHOOSE x \in ks : \A y \in ks \ {x} : StrLess(x, y)

\* the lines of a group, one path per line
RECURSIVE PathLines(_)
PathLines(ps) ==
  IF ps = <<>> THEN <<>> ELSE ps[1] \o <<"\n">> \o PathLines(Tail(ps))

\* the blocks of the keys ks of the table d, least key first
RECURSIVE Blocks(_, _)
Blocks(d, ks) ==
  IF ks = {} THEN <<>>
  ELSE LET k == MinKey(ks)
       IN <<"-", "-", "-", " ">> \o k \o <<" ", "-", "-", "-", "\n">>
          \o PathLines(Get(d, k)) \o <<"\n">>
          \o Blocks(d, ks \ {k})

\* C6: the finished report exists and is the blocks of the keys of the
\* table, each the header '--- <ext> ---', the paths of the group in the
\* order of the traversal and an empty line; it has 2 * keys + files lines;
\* the header of the empty key is '---  ---'; with no file visited it has
\* zero bytes.
C6_ReportContent ==
  pc \in {"print", "done"} =>
    /\ Exists(output_path)
    /\ Content(output_path) = Blocks(files_by_ext, Keys(files_by_ext))
    /\ CountNL(Content(output_path)) = 2 * Cardinality(Keys(files_by_ext)) + Len(visited)
    /\ \A k \in 1..Len(files_by_ext) :
         files_by_ext[k][2] =
           SelectSeq(VisitedRels, LAMBDA r : r \in Range(files_by_ext[k][2]))
    /\ <<>> \in Keys(files_by_ext) =>
         SubSeq(Content(output_path), 1, 9) = <<"-", "-", "-", " ", " ", "-", "-", "-", "\n">>
    /\ visited = <<>> => Content(output_path) = <<>>

\* a finished report of two blocks, one of them of the empty key, whose
\* paths were not visited in sorted order
C6_Witness ==
  /\ pc = "done"
  /\ Cardinality(Keys(files_by_ext)) >= 2
  /\ <<>> \in Keys(files_by_ext)
  /\ Len(visited) >= 2
  /\ StrLess(Rel(visited[2]), Rel(visited[1]))

----------------------------------------------------------------------------
(* C7 *)

\* the block of one item of the sorted table
Block(item) == HeaderLine(item[1]) \o PathLines(item[2]) \o <<NL>>

RECURSIVE BlocksUpTo(_, _)
BlocksUpTo(its, n) ==
  IF n = 0 THEN <<>> ELSE BlocksUpTo(its, n - 1) \o Block(its[n])

\* what this run has written through the handle so far
Written ==
  BlocksUpTo(items, i - 1)
  \o (IF i <= Len(items) /\ j >= 1
      THEN HeaderLine(items[i][1]) \o PathLines(SubSeq(items[i][2], 1, j - 1))
      ELSE <<>>)

\* C7: from the moment the report is opened its file holds what this run
\* has written and nothing else, whatever the file held before; the finished
\* report is the blocks of this run; no run fails in makedirs when the
\* output directory was already there.
C7_Overwrites ==
  /\ f.state # "none" => Exists(f.path) /\ Content(f.path) = Written
  /\ pc \in {"print", "done"} =>
       f.path = output_path /\ Content(output_path) = BlocksUpTo(items, Len(items))
  /\ error = "makedirs" => ~before.exists

\* a finished run whose report path held another text before the run
C7_Witness ==
  /\ pc = "done"
  /\ output_path \in Keys(before.files)
  /\ Get(before.files, output_path) # <<>>
  /\ Get(before.files, output_path) # Content(output_path)

----------------------------------------------------------------------------
(* C8 *)

\* C8: the handle is open only while the report is being written: it is not
\* open in any terminal state, whether the run succeeded, failed or was
\* cancelled, and was never opened before the traversal is over or when open
\* itself failed.
C8_HandleClosed ==
  /\ f.state = "open" => pc = "write"
  /\ pc \in Terminal \cup {"print"} => f.state # "open"
  /\ pc \in {"pick", "walk", "makedirs", "open", "cancelled"} => f.state = "none"
  /\ error \in {"write", "close"} => f.state = "closed"
  /\ error \in {"makedirs", "open"} => f.state = "none"

\* a run that failed in a write after the header of the first block
C8_Witness ==
  /\ pc = "failed"
  /\ error = "write"
  /\ f.state = "closed"
  /\ Content(f.path) # <<>>

----------------------------------------------------------------------------
(* C9 *)

\* two tables hold the same groups under the same keys
SameTable(a, b) ==
  /\ Keys(a) = Keys(b)
  /\ \A k \in Keys(a) : Get(a, k) = Get(b, k)

\* C9: when a second run follows a finished one on the unchanged tree, the
\* same folder and the same traversal order give the same report path and a
\* report equal byte for byte; and whenever the two tables hold the same
\* groups, in whatever order the keys were inserted, the reports are equal.
C9_Deterministic ==
  (pc \in {"print", "done"} /\ prev # <<>> /\ prev[1].outcome = "done") =>
    /\ (prev[1].folder = folder_selected /\ prev[1].visited = visited) =>
         /\ output_path = prev[1].output_path
         /\ Content(output_path) = prev[1].report
    /\ SameTable(prev[1].table, files_by_ext) =>
         Content(output_path) = prev[1].report

\* two finished runs whose tables hold the same groups but whose keys were
\* inserted in another order
C9_Witness ==
  /\ pc = "done"
  /\ prev # <<>>
  /\ prev[1].outcome = "done"
  /\ SameTable(prev[1].table, files_by_ext)
  /\ prev[1].table # files_by_ext
  /\ Content(output_path) # <<>>

----------------------------------------------------------------------------
(* C10 *)

\* the steps of a run in which a folder is selected and nothing fails
Order == <<"select", "traverse", "makedirs", "open", "write", "close", "print">>

\* the part of a path behind its last '/'
LastPart(p) ==
  CHOOSE t \in {SubSeq(p, k, Len(p)) : k \in 1..(Len(p) + 1)} :
    /\ "/" \notin Range(t)
    /\ p[Len(p) - Len(t)] = "/"

\* C10: the steps of a run are taken in the order select, traverse,
\* makedirs, open, write, close, print; a finished run has taken all of
\* them and printed the one line 'Saved to: <output_path>', where
\* <output_path> is <tool directory>/output/<basename of the folder>.txt and
\* is the path the report was written to; that line is on the console only
\* when the whole report is in the file and the handle is closed.
C10_OrderAndMessage ==
  /\ steps = SubSeq(Order, 1, Len(steps))
  /\ pc = "done" =>
       /\ steps = Order
       /\ console = <<SavedLine(output_path)>>
       /\ output_path = <<"/", "t", "/", "o", "u", "t", "p", "u", "t", "/">>
                          \o LastPart(folder_selected) \o <<".", "t", "x", "t">>
       /\ f.path = output_path
  /\ (console # <<>> /\ pc # "cancelled") =>
       /\ pc = "done"
       /\ f.state = "closed"
       /\ outdir_exists
       /\ Content(output_path) = Blocks(files_by_ext, Keys(files_by_ext))
  /\ f.state # "none" => outdir_exists /\ todo = <<>> /\ filenames = <<>>

\* a finished run on a folder that lies below another folder, on a disk
\* that had no output directory
C10_Witness ==
  /\ pc = "done"
  /\ folder_selected = <<"/", "e", "/", "d">>
  /\ ~before.exists
  /\ visited # <<>>

====
